---- MODULE Spec2Model ----
(***************************************************************************)
(* A model of cpms/grading/Sandbox.py: the Truncator stream wrapper and    *)
(* the file-management part of SandboxBase.                                *)
(*                                                                         *)
(* Byte strings are sequences of small naturals.  A binary stream (the     *)
(* object returned by open(path, "rb")) is a record [data, pos]: its       *)
(* content and its current offset.  An operation that raises is recorded   *)
(* by the name of the exception in the field err of the last-call record.  *)
(*                                                                         *)
(* The language definitions of cpms/grading/languages are modelled by      *)
(* their get_compilation_commands.                                         *)
(*                                                                         *)
(* Six specifications share the variables:                                 *)
(*   SpecTruncator  reads, seeks and writes on one Truncator;              *)
(*   SpecAccess     files created, inspected and removed through plain,    *)
(*                  ".." and absolute paths, and set_multiprocess;         *)
(*   SpecSandbox    files written from strings and read back;              *)
(*   SpecStorage    files persisted to and materialized from storage;      *)
(*   SpecText       files opened in text mode and read to the end;         *)
(*   SpecLanguage   compilation commands of C11Gcc and Python2CPython.     *)
(* t_last, s_last and l_last are history variables: they record the last   *)
(* call and what it returned, so that properties can speak about calls.    *)
(***************************************************************************)
EXTENDS Integers, Sequences

VARIABLES
    fobj,            \* Truncator.fobj: the wrapped binary stream [data, pos]
    size,            \* Truncator.size: the ceiling
    t_last,          \* the last call made on the Truncator and its outcome
    loop,            \* "reading" | "done" | "broken": a plain read loop from offset 0
    acc,             \* the bytes the read loop has been given so far
    fs,              \* the filesystem: location -> [exists, content, mode]
    storage,         \* the storage collaborator: the blobs it holds, by digest
    max_processes,   \* SandboxBase.max_processes
    s_last,          \* the last call made on the sandbox and its outcome
    l_args,          \* the arguments handed to a language definition
    l_last           \* the last call made on a language definition and its outcome

t_vars == <<fobj, size, t_last, loop, acc>>
s_vars == <<fs, storage, max_processes, s_last>>
l_vars == <<l_args, l_last>>
vars == <<fobj, size, t_last, loop, acc, fs, storage, max_processes, s_last,
          l_args, l_last>>

----------------------------------------------------------------------------
(* Bounds *)

MaxLen == 3        \* longest underlying stream
MaxSize == 4       \* largest Truncator ceiling
MaxChunk == 2      \* largest read request
MaxOff == 2        \* largest seek offset, in absolute value
MaxPos == 5        \* seeks that would move the stream beyond this offset are not taken

Bytes == {1, 2}

Min(a, b) == IF a < b THEN a ELSE b
Max(a, b) == IF a > b THEN a ELSE b

\* All sequences over S of length at most n.
SeqsUpTo(S, n) == UNION {[1..k -> S] : k \in 0..n}

\* All byte strings of length at most n.
BytesUpTo(n) == SeqsUpTo(Bytes, n)

----------------------------------------------------------------------------
(* The wrapped stream: io.BufferedReader over a regular file *)

SEEK_SET == 0
SEEK_CUR == 1
SEEK_END == 2

\* fobj.readinto(b) with len(b) = n: fills b with as many bytes as the file
\* still has from the current offset, and advances by that count.
fobj_readinto(f, n) ==
    LET k == Min(n, Max(0, Len(f.data) - f.pos))
    IN  [fobj  |-> [f EXCEPT !.pos = f.pos + k],
         count |-> k,
         bytes |-> SubSeq(f.data, f.pos + 1, f.pos + k)]

\* fobj.seek(offset, whence): the new absolute offset, or OSError (EINVAL)
\* when it would be negative, in which case the offset is left alone.
fobj_seek(f, offset, whence) ==
    LET base   == IF whence = SEEK_SET THEN 0
                  ELSE IF whence = SEEK_CUR THEN f.pos
                  ELSE Len(f.data)
        target == base + offset
    IN  IF target < 0
        THEN [fobj |-> f, ret |-> -1, err |-> "OSError"]
        ELSE [fobj |-> [f EXCEPT !.pos = target], ret |-> target, err |-> ""]

fobj_tell(f) == f.pos

----------------------------------------------------------------------------
(* Truncator *)

\* Mutants of readinto: the buffer is not clipped at all; the buffer is clipped
\* to the ceiling without regard to the current offset.
Truncator_readinto_unclipped(f, sz, n) ==
    fobj_readinto(f, n)

Truncator_readinto_no_tell(f, sz, n) ==
    fobj_readinto(f, Min(n, Max(0, sz)))

\* Truncator.readinto(b) with len(b) = n
Truncator_readinto(f, sz, n) ==
    fobj_readinto(f, Min(n, Max(0, sz - fobj_tell(f))))

\* Mutant of seek: seeks from the end are passed through like the others.
Truncator_seek_passthrough(f, sz, offset, whence) ==
    fobj_seek(f, offset, whence)

\* Truncator.seek(offset, whence)
Truncator_seek(f, sz, offset, whence) ==
    IF whence = SEEK_END
    THEN LET e == fobj_seek(f, 0, SEEK_END)
             c == IF e.ret > sz THEN fobj_seek(e.fobj, sz, SEEK_SET) ELSE e
         IN  fobj_seek(c.fobj, offset, SEEK_CUR)
    ELSE fobj_seek(f, offset, whence)

\* Truncator.tell()
Truncator_tell(f) == fobj_tell(f)

\* Mutant of write: the bytes are written through to the wrapped stream.
Truncator_write_through(f, b) ==
    [fobj |-> [data |-> SubSeq(f.data, 1, Min(f.pos, Len(f.data))) \o b
                        \o SubSeq(f.data, f.pos + Len(b) + 1, Len(f.data)),
               pos  |-> f.pos + Len(b)],
     ret |-> Len(b), err |-> ""]

\* Truncator.write(b)
Truncator_write(f, b) ==
    [fobj |-> f, ret |-> -1, err |-> "UnsupportedOperation"]

NoCall == [op |-> "none", arg |-> 0, whence |-> 0, from |-> 0,
           ret |-> 0, bytes |-> <<>>, err |-> ""]

\* Truncator(fobj, size) over a stream freshly opened at offset 0
TruncatorInit ==
    /\ fobj \in [data : BytesUpTo(MaxLen), pos : {0}]
    /\ size \in 0..MaxSize
    /\ t_last = NoCall
    /\ loop = "reading"
    /\ acc = <<>>

\* RawIOBase.read(n), n > 0: a buffer of n bytes handed to readinto
Read(n) ==
    LET r == Truncator_readinto(fobj, size, n)
    IN  /\ fobj' = r.fobj
        /\ t_last' = [op |-> "read", arg |-> n, whence |-> 0, from |-> fobj.pos,
                      ret |-> r.count, bytes |-> r.bytes, err |-> ""]
        /\ acc' = IF loop = "broken" THEN acc ELSE acc \o r.bytes
        /\ loop' = IF loop = "reading" /\ r.count = 0 THEN "done" ELSE loop
        /\ UNCHANGED <<size, s_vars, l_vars>>

Seek(offset, whence) ==
    LET r == Truncator_seek(fobj, size, offset, whence)
    IN  /\ r.fobj.pos <= MaxPos
        /\ fobj' = r.fobj
        /\ t_last' = [op |-> "seek", arg |-> offset, whence |-> whence,
                      from |-> fobj.pos, ret |-> r.ret, bytes |-> <<>>,
                      err |-> r.err]
        /\ loop' = "broken"
        /\ acc' = <<>>
        /\ UNCHANGED <<size, s_vars, l_vars>>

Write(b) ==
    LET r == Truncator_write(fobj, b)
    IN  /\ fobj' = r.fobj
        /\ t_last' = [op |-> "write", arg |-> Len(b), whence |-> 0,
                      from |-> fobj.pos, ret |-> r.ret, bytes |-> <<>>,
                      err |-> r.err]
        /\ UNCHANGED <<size, loop, acc, s_vars, l_vars>>

----------------------------------------------------------------------------
(* Paths and the filesystem *)

\* A path is [abs, comps]: whether it starts with "/", and its components.
Rel(comps) == [abs |-> FALSE, comps |-> comps]
Abs(comps) == [abs |-> TRUE, comps |-> comps]

\* SandboxBase.get_root_path(): abstract; a backend returns a fixed absolute path.
get_root_path == Abs(<<"tmp", "box">>)

\* The directories that exist; the model creates and removes regular files only.
Dirs == {<<>>, <<"tmp">>, <<"tmp", "box">>}

\* The path arguments callers pass: two plain names, a path through "..",
\* and an absolute path.
PlainPaths == {Rel(<<"a">>), Rel(<<"b">>)}
PathArgs == PlainPaths \cup {Rel(<<"..", "a">>), Abs(<<"tmp", "a">>)}

\* os.path.join(a, p): p alone when p is absolute, else p appended to a.
os_path_join(a, p) ==
    IF p.abs THEN p ELSE [abs |-> a.abs, comps |-> a.comps \o p.comps]

Parent(loc) == IF loc = <<>> THEN <<>> ELSE SubSeq(loc, 1, Len(loc) - 1)

\* The kernel's walk of an absolute path from the directory cur: ".." is the
\* parent, and every component but the last must be a directory.  The result
\* is the location reached, or the place where the walk stopped.
RECURSIVE Walk(_, _)
Walk(cur, rest) ==
    IF rest = <<>> THEN [ok |-> TRUE, loc |-> cur]
    ELSE IF cur \notin Dirs THEN [ok |-> FALSE, loc |-> cur]
    ELSE IF Head(rest) = ".." THEN Walk(Parent(cur), Tail(rest))
    ELSE IF Head(rest) = "." THEN Walk(cur, Tail(rest))
    ELSE Walk(Append(cur, Head(rest)), Tail(rest))

\* The locations the path arguments can reach.
Locs == {Walk(<<>>, os_path_join(get_root_path, p).comps).loc : p \in PathArgs}

NoFile == [exists |-> FALSE, content |-> <<>>, mode |-> 0]

Exists(fsys, loc) == loc \in Dirs \/ (loc \in DOMAIN fsys /\ fsys[loc].exists)

\* Resolution of a system path: the location it denotes, or the OS error.
Resolve(fsys, real) ==
    LET w == Walk(<<>>, real.comps)
    IN  IF w.ok THEN [err |-> "", loc |-> w.loc]
        ELSE IF Exists(fsys, w.loc) THEN [err |-> "NotADirectoryError", loc |-> w.loc]
        ELSE [err |-> "FileNotFoundError", loc |-> w.loc]

\* Whether location loc is the directory dir or lies below it.
AtOrBelow(loc, dir) == Len(loc) >= Len(dir) /\ SubSeq(loc, 1, Len(dir)) = dir

----------------------------------------------------------------------------
(* Permission bits (module stat) *)

S_IRUSR == 256
S_IWUSR == 128
S_IXUSR == 64
S_IRGRP == 32
S_IXGRP == 8
S_IROTH == 4
S_IXOTH == 1

RECURSIVE BitOr(_, _)
BitOr(x, y) ==
    IF x = 0 THEN y
    ELSE IF y = 0 THEN x
    ELSE (IF x % 2 = 1 \/ y % 2 = 1 THEN 1 ELSE 0) + 2 * BitOr(x \div 2, y \div 2)

----------------------------------------------------------------------------
(* Byte strings handled by the sandbox *)

MaxContentLen == 1     \* longest short content written from a string
MaxBlobLen == 2        \* longest content of a file that goes through storage
MaxTrunc == 1          \* largest trunc_len asked of get_file_to_storage

\* The default of get_file_to_string's maxlen, and the encoding of maxlen=None
\* and trunc_len=None.
DefaultMaxlen == 1024
None == -1

\* One content longer than the default maxlen; its last byte differs from the
\* byte before it.
LongContent == [i \in 1..(DefaultMaxlen + 1) |-> IF i > DefaultMaxlen THEN 2 ELSE 1]

\* The contents written from strings and read back.
Contents == BytesUpTo(MaxContentLen) \cup {LongContent}

\* The contents of the files that are persisted to storage.
StorageContents == SeqsUpTo({1}, MaxBlobLen)

----------------------------------------------------------------------------
(* The storage collaborator (FileCacher): a content-addressed blob store *)

DigestModulus == 1000003

\* The digest of a blob: derived from its content alone, by hashing the two
\* halves of the blob and combining the results.
RECURSIVE DigestOf(_, _, _)
DigestOf(c, lo, hi) ==
    IF lo > hi THEN 7
    ELSE IF lo = hi THEN (c[lo] * 131 + 11) % DigestModulus
    ELSE LET mid == (lo + hi) \div 2
         IN  (DigestOf(c, lo, mid) * 31 + DigestOf(c, mid + 1, hi) * 17 + (hi - lo))
                 % DigestModulus

Digest(c) == DigestOf(c, 1, Len(c))

\* The digests callers ask the sandbox to materialize.
DigestArgs == {Digest(c) : c \in StorageContents}

\* file_cacher.put_file_from_fobj(fobj, description): stores what the stream
\* yields and returns its digest.
put_file_from_fobj(store, blob) ==
    [storage |-> store \cup {[digest |-> Digest(blob), blob |-> blob]},
     digest  |-> Digest(blob)]

HasDigest(store, d) == \E e \in store : e.digest = d

\* file_cacher.get_file_to_fobj(digest, dest): the blob written to dest.
get_file_to_fobj(store, d) == (CHOOSE e \in store : e.digest = d).blob

----------------------------------------------------------------------------
(* SandboxBase *)

NoPath == Rel(<<>>)

SCall(op, path, exe, data, n, err, out, res) ==
    [op |-> op, path |-> path, exe |-> exe, data |-> data, n |-> n,
     err |-> err, out |-> out, res |-> res]

S_NoCall == SCall("none", NoPath, FALSE, <<>>, 0, "", <<>>, 0)

\* SandboxBase.__init__
SandboxInit ==
    /\ fs = [l \in Locs |-> NoFile]
    /\ storage = {}
    /\ max_processes = 1
    /\ s_last = S_NoCall

\* Mutant of set_multiprocess: the ceiling is raised but never lowered again.
set_multiprocess_never_lowers(mp, multiprocess) ==
    IF multiprocess THEN 1000 ELSE mp

\* SandboxBase.set_multiprocess(multiprocess): the new max_processes
set_multiprocess(mp, multiprocess) ==
    IF multiprocess THEN 1000 ELSE 1

\* SandboxBase.relative_path(path)
relative_path(path) == os_path_join(get_root_path, path)

\* Mutant of create_file: the file is opened without O_EXCL, so an existing
\* file is opened for writing, and truncated, instead of refused.
create_file_not_exclusive(fsys, path, executable) ==
    LET r == Resolve(fsys, relative_path(path))
    IN  IF r.err # "" THEN [fs |-> fsys, err |-> r.err, loc |-> r.loc]
        ELSE IF r.loc \in Dirs
        THEN [fs |-> fsys, err |-> "IsADirectoryError", loc |-> r.loc]
        ELSE [fs  |-> [fsys EXCEPT ![r.loc] =
                          [exists |-> TRUE, content |-> <<>>,
                           mode |-> IF executable THEN 493 ELSE 420]],
              err |-> "", loc |-> r.loc]

\* Mutant of create_file: the execute bits are given to the owner only.
create_file_owner_exec_only(fsys, path, executable) ==
    LET r == Resolve(fsys, relative_path(path))
    IN  IF r.err # "" THEN [fs |-> fsys, err |-> r.err, loc |-> r.loc]
        ELSE IF Exists(fsys, r.loc)
        THEN [fs |-> fsys, err |-> "FileExistsError", loc |-> r.loc]
        ELSE [fs  |-> [fsys EXCEPT ![r.loc] =
                          [exists |-> TRUE, content |-> <<>>,
                           mode |-> IF executable THEN 484 ELSE 420]],
              err |-> "", loc |-> r.loc]

\* SandboxBase.create_file(path, executable): os.open with O_CREAT | O_EXCL |
\* O_WRONLY, then os.chmod.  The result is the filesystem, the error raised
\* ("" for none) and the location of the file.
create_file(fsys, path, executable) ==
    LET real_path == relative_path(path)
        r   == Resolve(fsys, real_path)
        m0  == BitOr(BitOr(BitOr(S_IRUSR, S_IRGRP), S_IROTH), S_IWUSR)
        mod == IF executable
               THEN BitOr(m0, BitOr(BitOr(S_IXUSR, S_IXGRP), S_IXOTH))
               ELSE m0
    IN  IF r.err # "" THEN [fs |-> fsys, err |-> r.err, loc |-> r.loc]
        ELSE IF Exists(fsys, r.loc)
        THEN [fs |-> fsys, err |-> "FileExistsError", loc |-> r.loc]
        ELSE [fs  |-> [fsys EXCEPT ![r.loc] =
                          [exists |-> TRUE, content |-> <<>>, mode |-> mod]],
              err |-> "", loc |-> r.loc]

\* dest_fobj.write(content) on the stream create_file returned, then close
write_and_close(fsys, loc, content) ==
    [fsys EXCEPT ![loc].content = fsys[loc].content \o content]

\* SandboxBase.create_file_from_string(path, content, executable)
create_file_from_string(fsys, path, content, executable) ==
    LET c == create_file(fsys, path, executable)
    IN  IF c.err # "" THEN c
        ELSE [c EXCEPT !.fs = write_and_close(c.fs, c.loc, content)]

\* Mutant of create_file_from_storage: the file is created and the blob is
\* never copied into it.
create_file_from_storage_no_copy(fsys, store, path, digest, executable) ==
    create_file(fsys, path, executable)

\* SandboxBase.create_file_from_storage(path, digest, executable); an unknown
\* digest makes the collaborator raise after the file has been created.
create_file_from_storage(fsys, store, path, digest, executable) ==
    LET c == create_file(fsys, path, executable)
    IN  IF c.err # "" THEN c
        ELSE IF ~HasDigest(store, digest) THEN [c EXCEPT !.err = "KeyError"]
        ELSE [c EXCEPT !.fs = write_and_close(c.fs, c.loc,
                                              get_file_to_fobj(store, digest))]

\* SandboxBase.get_file(path, trunc_len): open(real_path, "rb"), wrapped in a
\* Truncator when trunc_len is given.  size is None for the bare stream.
get_file(fsys, path, trunc_len) ==
    LET r == Resolve(fsys, relative_path(path))
    IN  IF r.err # "" THEN [err |-> r.err, fobj |-> [data |-> <<>>, pos |-> 0], size |-> None]
        ELSE IF r.loc \in Dirs
        THEN [err |-> "IsADirectoryError", fobj |-> [data |-> <<>>, pos |-> 0], size |-> None]
        ELSE IF ~Exists(fsys, r.loc)
        THEN [err |-> "FileNotFoundError", fobj |-> [data |-> <<>>, pos |-> 0], size |-> None]
        ELSE [err |-> "", fobj |-> [data |-> fsys[r.loc].content, pos |-> 0],
              size |-> trunc_len]

\* file_.read(n) on the bare binary stream; n = None reads to the end.
fobj_read(f, n) ==
    IF n = None THEN SubSeq(f.data, f.pos + 1, Len(f.data))
    ELSE fobj_readinto(f, n).bytes

\* Reading a Truncator to the end: readinto until it returns nothing.
RECURSIVE Truncator_readall(_, _, _)
Truncator_readall(f, sz, chunk) ==
    LET r == Truncator_readinto(f, sz, chunk)
    IN  IF r.count = 0 THEN <<>>
        ELSE r.bytes \o Truncator_readall(r.fobj, sz, chunk)

\* Mutant of get_file_to_string: maxlen=None falls back to the default cap.
get_file_to_string_default_cap(fsys, path, maxlen) ==
    LET g == get_file(fsys, path, None)
    IN  IF g.err # "" THEN [err |-> g.err, out |-> <<>>]
        ELSE [err |-> "", out |-> fobj_read(g.fobj, IF maxlen = None THEN DefaultMaxlen ELSE maxlen)]

\* SandboxBase.get_file_to_string(path, maxlen)
get_file_to_string(fsys, path, maxlen) ==
    LET g == get_file(fsys, path, None)
    IN  IF g.err # "" THEN [err |-> g.err, out |-> <<>>]
        ELSE IF maxlen = None THEN [err |-> "", out |-> fobj_read(g.fobj, None)]
        ELSE [err |-> "", out |-> fobj_read(g.fobj, maxlen)]

\* The methods of the text stream open(path, "rt") returns that matter here:
\* a TextIOWrapper reads and decodes, and has no readinto.
TextIOWrapperMethods == {"read", "seek", "tell", "close"}

\* Decoding UTF-8: every byte of the model is ASCII and decodes to the code
\* point of the same value.
utf8_decode(bytes) == [i \in 1..Len(bytes) |-> bytes[i]]

\* SandboxBase.get_file_text(path, trunc_len): the file opened in text mode,
\* inside a Truncator of ceiling trunc_len unless trunc_len is None.
get_file_text(fsys, path, trunc_len) ==
    LET r == Resolve(fsys, relative_path(path))
        failed(e) == [err |-> e, fobj |-> [data |-> <<>>, pos |-> 0],
                      wrapped |-> FALSE, size |-> None]
    IN  IF r.err # "" THEN failed(r.err)
        ELSE IF r.loc \in Dirs THEN failed("IsADirectoryError")
        ELSE IF ~Exists(fsys, r.loc) THEN failed("FileNotFoundError")
        ELSE [err |-> "", fobj |-> [data |-> fsys[r.loc].content, pos |-> 0],
              wrapped |-> trunc_len # None, size |-> trunc_len]

\* Reading to the end the stream get_file_text returned.  The bare text stream
\* decodes the rest of the file.  The Truncator's read goes through its
\* readinto, which calls readinto on the wrapped stream: a text stream has no
\* such method, so the attribute lookup raises whatever the ceiling is.
text_stream_read(t) ==
    IF ~t.wrapped THEN [err |-> "", out |-> utf8_decode(fobj_read(t.fobj, None))]
    ELSE IF "readinto" \in TextIOWrapperMethods
    THEN [err |-> "", out |-> utf8_decode(Truncator_readall(t.fobj, t.size, MaxChunk))]
    ELSE [err |-> "AttributeError", out |-> <<>>]

\* SandboxBase.get_file_to_storage(path, description, trunc_len)
get_file_to_storage(fsys, store, path, trunc_len) ==
    LET g == get_file(fsys, path, trunc_len)
    IN  IF g.err # "" THEN [err |-> g.err, storage |-> store, digest |-> 0]
        ELSE LET blob == IF g.size = None THEN fobj_read(g.fobj, None)
                         ELSE Truncator_readall(g.fobj, g.size, MaxChunk)
                 p    == put_file_from_fobj(store, blob)
             IN  [err |-> "", storage |-> p.storage, digest |-> p.digest]

\* SandboxBase.stat_file(path): the st_mode permission bits, or the error
stat_file(fsys, path) ==
    LET r == Resolve(fsys, relative_path(path))
    IN  IF r.err # "" THEN [err |-> r.err, mode |-> 0]
        ELSE IF ~Exists(fsys, r.loc) THEN [err |-> "FileNotFoundError", mode |-> 0]
        ELSE [err |-> "", mode |-> IF r.loc \in Dirs THEN 493 ELSE fsys[r.loc].mode]

\* SandboxBase.file_exists(path)
file_exists(fsys, path) ==
    LET r == Resolve(fsys, relative_path(path))
    IN  r.err = "" /\ Exists(fsys, r.loc)

\* SandboxBase.remove_file(path)
remove_file(fsys, path) ==
    LET r == Resolve(fsys, relative_path(path))
    IN  IF r.err # "" THEN [fs |-> fsys, err |-> r.err]
        ELSE IF r.loc \in Dirs THEN [fs |-> fsys, err |-> "IsADirectoryError"]
        ELSE IF ~Exists(fsys, r.loc) THEN [fs |-> fsys, err |-> "FileNotFoundError"]
        ELSE [fs |-> [fsys EXCEPT ![r.loc] = NoFile], err |-> ""]

(* The calls, as steps of the sandbox *)

SetMultiprocess(multiprocess) ==
    /\ max_processes' = set_multiprocess(max_processes, multiprocess)
    /\ s_last' = SCall("set_multiprocess", NoPath, FALSE, <<>>,
                       IF multiprocess THEN 1 ELSE 0, "", <<>>, 0)
    /\ UNCHANGED <<fs, storage, t_vars, l_vars>>

CreateFile(path, executable) ==
    LET c == create_file(fs, path, executable)
    IN  /\ fs' = c.fs
        /\ s_last' = SCall("create_file", path, executable, <<>>, 0, c.err, <<>>, 0)
        /\ UNCHANGED <<storage, max_processes, t_vars, l_vars>>

CreateFileFromString(path, content, executable) ==
    LET c == create_file_from_string(fs, path, content, executable)
    IN  /\ fs' = c.fs
        /\ s_last' = SCall("create_file_from_string", path, executable, content,
                           0, c.err, <<>>, 0)
        /\ UNCHANGED <<storage, max_processes, t_vars, l_vars>>

CreateFileFromStorage(path, digest, executable) ==
    LET c == create_file_from_storage(fs, storage, path, digest, executable)
    IN  /\ fs' = c.fs
        /\ s_last' = SCall("create_file_from_storage", path, executable, <<>>,
                           digest, c.err, <<>>, 0)
        /\ UNCHANGED <<storage, max_processes, t_vars, l_vars>>

GetFileToString(path, maxlen) ==
    LET g == get_file_to_string(fs, path, maxlen)
    IN  /\ s_last' = SCall("get_file_to_string", path, FALSE, <<>>, maxlen,
                           g.err, g.out, 0)
        /\ UNCHANGED <<fs, storage, max_processes, t_vars, l_vars>>

\* get_file_text(path, trunc_len) and the caller reading the stream to the end.
GetFileText(path, trunc_len) ==
    LET t == get_file_text(fs, path, trunc_len)
        r == IF t.err # "" THEN [err |-> t.err, out |-> <<>>] ELSE text_stream_read(t)
    IN  /\ s_last' = SCall("get_file_text", path, FALSE, <<>>, trunc_len,
                           r.err, r.out, 0)
        /\ UNCHANGED <<fs, storage, max_processes, t_vars, l_vars>>

GetFileToStorage(path, trunc_len) ==
    LET g == get_file_to_storage(fs, storage, path, trunc_len)
    IN  /\ storage' = g.storage
        /\ s_last' = SCall("get_file_to_storage", path, FALSE, <<>>, trunc_len,
                           g.err, <<>>, g.digest)
        /\ UNCHANGED <<fs, max_processes, t_vars, l_vars>>

StatFile(path) ==
    LET r == stat_file(fs, path)
    IN  /\ s_last' = SCall("stat_file", path, FALSE, <<>>, 0, r.err, <<>>, r.mode)
        /\ UNCHANGED <<fs, storage, max_processes, t_vars, l_vars>>

FileExists(path) ==
    /\ s_last' = SCall("file_exists", path, FALSE, <<>>, 0, "", <<>>,
                       IF file_exists(fs, path) THEN 1 ELSE 0)
    /\ UNCHANGED <<fs, storage, max_processes, t_vars, l_vars>>

RemoveFile(path) ==
    LET r == remove_file(fs, path)
    IN  /\ fs' = r.fs
        /\ s_last' = SCall("remove_file", path, FALSE, <<>>, 0, r.err, <<>>, 0)
        /\ UNCHANGED <<storage, max_processes, t_vars, l_vars>>

----------------------------------------------------------------------------
(* Language definitions: cpms/grading/languages *)
(*                                                                         *)
(* A filename handed to a language definition is a sequence of characters; *)
(* a command is a sequence of words, and a word is a string.               *)

MaxSources == 2    \* most source filenames in one call

\* The filenames calls are made with: plain C and Python names, a name under
\* a directory, a name with two dots, a name that starts with a dot, and a
\* name spelled like a compiler option.
SourceNames ==
    { <<"a", ".", "c">>,
      <<"b", ".", "c">>,
      <<"d", "/", "m", ".", "p", "y">>,
      <<"x", ".", "y", ".", "p", "y">>,
      <<".", "h">>,
      <<"-", "D", "E", "V", "A", "L">> }

ExecutableNames == { <<"p", "r", "o", "g">>, <<"o", ".", "z", "i", "p">> }

\* The string a sequence of characters spells.
RECURSIVE Str(_)
Str(cs) == IF cs = <<>> THEN "" ELSE Head(cs) \o Str(Tail(cs))

Strs(names) == [i \in 1..Len(names) |-> Str(names[i])]

\* str.rfind(ch) + 1: the 1-based position of the last ch in p, 0 if none.
rfind(p, ch) ==
    IF \E i \in 1..Len(p) : p[i] = ch
    THEN CHOOSE i \in 1..Len(p) : p[i] = ch /\ \A j \in (i + 1)..Len(p) : p[j] # ch
    ELSE 0

\* os.path.basename: what follows the last slash.
os_path_basename(p) == SubSeq(p, rfind(p, "/") + 1, Len(p))

\* os.path.splitext: the name is split at its last dot, unless that dot
\* belongs to the directory part or only dots precede it in the file name.
os_path_splitext(p) ==
    LET sepIndex == rfind(p, "/")
        dotIndex == rfind(p, ".")
    IN  IF /\ dotIndex > sepIndex
           /\ \E k \in (sepIndex + 1)..(dotIndex - 1) : p[k] # "."
        THEN <<SubSeq(p, 1, dotIndex - 1), SubSeq(p, dotIndex, Len(p))>>
        ELSE <<p, <<>>>>

\* C11Gcc.get_compilation_commands with the evaluation marker always present.
C11Gcc_get_compilation_commands_always_eval(source_filenames, executable_filename, for_evaluation) ==
    << <<"/usr/bin/gcc", "-DEVAL", "-std=gnu11", "-O2", "-pipe", "-static",
         "-s", "-o", Str(executable_filename)>>
       \o Strs(source_filenames) \o <<"-lm">> >>

\* C11Gcc.get_compilation_commands
C11Gcc_get_compilation_commands(source_filenames, executable_filename, for_evaluation) ==
    LET c0 == <<"/usr/bin/gcc">>
        c1 == IF for_evaluation THEN c0 \o <<"-DEVAL">> ELSE c0
        c2 == c1 \o <<"-std=gnu11", "-O2", "-pipe", "-static",
                      "-s", "-o", Str(executable_filename)>>
        c3 == c2 \o Strs(source_filenames)
        command == c3 \o <<"-lm">>
    IN  <<command>>

\* Python2CPython.MAIN_FILENAME
MAIN_FILENAME == "__main__.pyc"

\* The loop of Python2CPython.get_compilation_commands from index idx on
\* (idx counts from 1 here, from 0 in the source); st carries commands and
\* files_to_package.
RECURSIVE Python2CPython_loop(_, _, _)
Python2CPython_loop(source_filenames, idx, st) ==
    IF idx > Len(source_filenames) THEN st
    ELSE LET source_filename == source_filenames[idx]
             basename == os_path_splitext(os_path_basename(source_filename))[1]
             pyc_filename == Str(basename) \o ".pyc"
         IN  Python2CPython_loop(source_filenames, idx + 1,
                 IF idx = 1
                 THEN [commands |-> Append(st.commands,
                                           <<"/bin/mv", pyc_filename, MAIN_FILENAME>>),
                       files_to_package |-> Append(st.files_to_package, MAIN_FILENAME)]
                 ELSE [commands |-> st.commands,
                       files_to_package |-> Append(st.files_to_package, pyc_filename)])

\* Python2CPython.get_compilation_commands with every artifact packaged under
\* its own name: the entry point is never renamed.
Python2CPython_get_compilation_commands_no_main(source_filenames, executable_filename, for_evaluation) ==
    << <<"/usr/bin/python2", "-m", "compileall", ".">>,
       <<"/usr/bin/zip", Str(executable_filename)>>
       \o [i \in 1..Len(source_filenames) |->
              Str(os_path_splitext(os_path_basename(source_filenames[i]))[1]) \o ".pyc"] >>

\* Python2CPython.get_compilation_commands
Python2CPython_get_compilation_commands(source_filenames, executable_filename, for_evaluation) ==
    LET st0 == [commands |-> << <<"/usr/bin/python2", "-m", "compileall", ".">> >>,
                files_to_package |-> <<>>]
        st == Python2CPython_loop(source_filenames, 1, st0)
    IN  Append(st.commands,
               <<"/usr/bin/zip", Str(executable_filename)>> \o st.files_to_package)

L_NoCall == [op |-> "", commands |-> <<>>]

\* The arguments of one call: any list of source filenames, any executable
\* name, either mode.
LanguageInit ==
    /\ l_args \in [source_filenames : SeqsUpTo(SourceNames, MaxSources),
                   executable_filename : ExecutableNames,
                   for_evaluation : BOOLEAN]
    /\ l_last = L_NoCall

C11Compile ==
    /\ l_last' = [op |-> "C11Gcc.get_compilation_commands",
                  commands |-> C11Gcc_get_compilation_commands(
                                   l_args.source_filenames,
                                   l_args.executable_filename,
                                   l_args.for_evaluation)]
    /\ UNCHANGED <<l_args, t_vars, s_vars>>

Python2Compile ==
    /\ l_last' = [op |-> "Python2CPython.get_compilation_commands",
                  commands |-> Python2CPython_get_compilation_commands(
                                   l_args.source_filenames,
                                   l_args.executable_filename,
                                   l_args.for_evaluation)]
    /\ UNCHANGED <<l_args, t_vars, s_vars>>

\* No language definition in use.
LanguageUnused ==
    /\ l_args = [source_filenames |-> <<>>, executable_filename |-> <<>>,
                 for_evaluation |-> TRUE]
    /\ l_last = L_NoCall

----------------------------------------------------------------------------
(* Specifications *)

\* The Truncator exercised alone: the sandbox stays as constructed.
InitTruncator == TruncatorInit /\ SandboxInit /\ LanguageUnused

NextTruncator ==
    \/ \E n \in 1..MaxChunk : Read(n)
    \/ \E o \in (0 - MaxOff)..MaxOff, w \in {SEEK_SET, SEEK_CUR, SEEK_END} : Seek(o, w)
    \/ \E b \in BytesUpTo(1) : Write(b)

SpecTruncator == InitTruncator /\ [][NextTruncator]_vars

\* No Truncator in use: the stream variables stay at fixed values.
TruncatorUnused ==
    /\ fobj = [data |-> <<>>, pos |-> 0]
    /\ size = 0
    /\ t_last = NoCall
    /\ loop = "reading"
    /\ acc = <<>>

InitSandbox == SandboxInit /\ TruncatorUnused /\ LanguageUnused

\* Access by path: files are created, inspected and removed through every
\* kind of path argument, and the process ceiling is switched.
NextAccess ==
    \/ \E p \in PathArgs, x \in BOOLEAN : CreateFile(p, x)
    \/ \E p \in PathArgs, n \in {None, DefaultMaxlen} : GetFileToString(p, n)
    \/ \E p \in PathArgs : StatFile(p)
    \/ \E p \in PathArgs : FileExists(p)
    \/ \E p \in PathArgs : RemoveFile(p)
    \/ \E m \in BOOLEAN : SetMultiprocess(m)

SpecAccess == InitSandbox /\ [][NextAccess]_vars

\* File contents: files are written from strings and read back.
NextSandbox ==
    \/ \E p \in PlainPaths, x \in BOOLEAN : CreateFile(p, x)
    \/ \E p \in PlainPaths, c \in Contents, x \in BOOLEAN : CreateFileFromString(p, c, x)
    \/ \E p \in PlainPaths, n \in {None, DefaultMaxlen} \cup 0..MaxContentLen : GetFileToString(p, n)
    \/ \E p \in PlainPaths : RemoveFile(p)

SpecSandbox == InitSandbox /\ [][NextSandbox]_vars

\* The sandbox with its storage collaborator: files are created, persisted to
\* storage and materialized from it.
NextStorage ==
    \/ \E p \in PlainPaths, x \in BOOLEAN : CreateFile(p, x)
    \/ \E p \in PlainPaths, c \in StorageContents, x \in BOOLEAN : CreateFileFromString(p, c, x)
    \/ \E p \in PlainPaths, d \in DigestArgs, x \in BOOLEAN : CreateFileFromStorage(p, d, x)
    \/ \E p \in PlainPaths, n \in {None} \cup 0..MaxTrunc : GetFileToStorage(p, n)
    \/ \E p \in PlainPaths : RemoveFile(p)

SpecStorage == InitSandbox /\ [][NextStorage]_vars

\* Text files: files are written from strings and opened in text mode, with
\* and without a truncation length.
NextText ==
    \/ \E p \in PlainPaths, c \in BytesUpTo(MaxContentLen), x \in BOOLEAN :
          CreateFileFromString(p, c, x)
    \/ \E p \in PlainPaths, n \in {None} \cup 0..MaxTrunc : GetFileText(p, n)
    \/ \E p \in PlainPaths : RemoveFile(p)

SpecText == InitSandbox /\ [][NextText]_vars

\* The language definitions asked for their compilation commands: the
\* sandbox and the Truncator stay as constructed.
InitLanguage == LanguageInit /\ SandboxInit /\ TruncatorUnused

NextLanguage ==
    \/ C11Compile
    \/ Python2Compile

SpecLanguage == InitLanguage /\ [][NextLanguage]_vars

----------------------------------------------------------------------------
(* Properties of the Truncator, checked under SpecTruncator *)

\* C1: a Truncator with ceiling N over a stream of length L at offset 0, read
\* with any positive chunk sizes until a read returns no bytes, has yielded
\* exactly the first min(N, L) bytes of the stream, in order.
C1_ReadLoopYieldsPrefix ==
    loop = "done" =>
        /\ Len(acc) = Min(size, Len(fobj.data))
        /\ acc = SubSeq(fobj.data, 1, Min(size, Len(fobj.data)))

\* A finished read loop over a stream longer than a ceiling of at least two
\* bytes, whose last productive read was cut short by the ceiling.
C1_Witness ==
    /\ loop = "done"
    /\ size >= 2
    /\ Len(fobj.data) > size
    /\ Len(acc) = size
    /\ t_last.op = "read" /\ t_last.ret = 0

\* C2: after any interleaving of seeks and reads, a read returns only bytes
\* whose offsets are below the ceiling, and they are the bytes of the stream
\* at those offsets; at an offset at or beyond the ceiling a read returns no
\* bytes and leaves the offset where it was.
C2_ReadsStayBelowCeiling ==
    t_last.op = "read" =>
        /\ t_last.ret = Len(t_last.bytes)
        /\ t_last.bytes = SubSeq(fobj.data, t_last.from + 1, t_last.from + t_last.ret)
        /\ (t_last.ret > 0 => t_last.from + t_last.ret <= size)
        /\ (t_last.from >= size => t_last.ret = 0 /\ Truncator_tell(fobj) = t_last.from)

\* A read made after seeking beyond the ceiling, where the stream still has
\* data, that returned nothing.
C2_Witness ==
    /\ t_last.op = "read"
    /\ loop = "broken"
    /\ t_last.from > size
    /\ t_last.from < Len(fobj.data)
    /\ t_last.ret = 0

\* C5: seek(0, SEEK_END) returns min(N, L), tell() then reports the same
\* value, and that value never exceeds the ceiling.
C5_SeekEndIsClamped ==
    (t_last.op = "seek" /\ t_last.whence = SEEK_END /\ t_last.arg = 0) =>
        /\ t_last.err = ""
        /\ t_last.ret = Min(size, Len(fobj.data))
        /\ Truncator_tell(fobj) = t_last.ret
        /\ t_last.ret <= size

\* A seek to the end made from beyond the ceiling on a stream longer than the
\* ceiling.
C5_Witness ==
    /\ t_last.op = "seek" /\ t_last.whence = SEEK_END /\ t_last.arg = 0
    /\ Len(fobj.data) > size
    /\ t_last.from > size
    /\ t_last.ret = size

\* C6: every write fails with UnsupportedOperation and leaves the content and
\* the offset of the wrapped stream as they were.
C6_WriteAlwaysUnsupported ==
    [][t_last'.op = "write" =>
          /\ t_last'.err = "UnsupportedOperation"
          /\ t_last'.ret = -1
          /\ fobj' = fobj]_vars

\* A rejected write of one byte at an offset inside the readable prefix.
C6_Witness ==
    /\ t_last.op = "write" /\ t_last.arg = 1
    /\ t_last.err = "UnsupportedOperation"
    /\ fobj.pos > 0 /\ fobj.pos < size /\ fobj.pos < Len(fobj.data)

----------------------------------------------------------------------------
(* Properties of the sandbox *)

Creators == {"create_file", "create_file_from_string", "create_file_from_storage"}

\* The location a path argument denotes, and the content of the file there.
LocOf(fsys, path) == Resolve(fsys, relative_path(path)).loc
ContentOf(fsys, path) == fsys[LocOf(fsys, path)].content

\* C3: a creation (create_file, create_file_from_string or
\* create_file_from_storage) at a path that already exists raises
\* FileExistsError and leaves every file, the existing one included, exactly
\* as it was.  Checked under SpecStorage.
C3_ExclusiveCreation ==
    [][(s_last'.op \in Creators /\ file_exists(fs, s_last'.path)) =>
          /\ s_last'.err = "FileExistsError"
          /\ fs' = fs]_vars

\* A create_file_from_string refused at a path whose file holds other,
\* non-empty content.
C3_Witness ==
    /\ s_last.op = "create_file_from_string"
    /\ s_last.err = "FileExistsError"
    /\ ContentOf(fs, s_last.path) # <<>>
    /\ ContentOf(fs, s_last.path) # s_last.data

\* C4: every path argument, absolute paths and paths through ".." included,
\* is translated by relative_path to a location at or below get_root_path(),
\* so that every file the accessors touch lies under the root.  Checked under
\* SpecAccess.
C4_PathsStayUnderRoot ==
    /\ s_last.op \notin {"none", "set_multiprocess"} =>
           AtOrBelow(LocOf(fs, s_last.path), get_root_path.comps)
    /\ \A l \in DOMAIN fs : fs[l].exists => AtOrBelow(l, get_root_path.comps)

\* C7: a fresh sandbox has max_processes = 1; set_multiprocess(true) sets it
\* to 1000 and set_multiprocess(false) to 1, whatever it was, so true after
\* false strictly raises it; no other call changes it.  Checked under
\* SpecAccess.
C7_CeilingFollowsLastCall ==
    /\ max_processes = 1
    /\ [][IF s_last'.op = "set_multiprocess"
          THEN /\ s_last'.n = 0 => max_processes' = 1
               /\ s_last'.n = 1 => max_processes' = 1000 /\ max_processes' > 1
               /\ (s_last.op = "set_multiprocess" /\ s_last.n = 0 /\ s_last'.n = 1)
                      => max_processes' > max_processes
          ELSE max_processes' = max_processes]_vars

\* The ceiling raised by set_multiprocess(true).
C7_Witness ==
    /\ s_last.op = "set_multiprocess" /\ s_last.n = 1
    /\ max_processes = 1000

\* C8: get_file_to_string(path, maxlen=None) made right after a successful
\* create_file_from_string(path, C) returns exactly C.  Checked under
\* SpecSandbox.
C8_StringRoundTrip ==
    [][(/\ s_last.op = "create_file_from_string" /\ s_last.err = ""
        /\ s_last'.op = "get_file_to_string" /\ s_last'.n = None
        /\ s_last'.path = s_last.path) =>
          /\ s_last'.err = ""
          /\ s_last'.out = s_last.data]_vars

\* An uncapped read that returned a content longer than the default maxlen.
C8_Witness ==
    /\ s_last.op = "get_file_to_string" /\ s_last.n = None /\ s_last.err = ""
    /\ Len(s_last.out) > DefaultMaxlen
    /\ s_last.out = ContentOf(fs, s_last.path)

\* C9: when get_file_to_storage(path) with no trunc_len has returned digest
\* d, a create_file_from_storage(path2, d) made next on a path2 that does not
\* exist succeeds and the new file holds exactly the content of the file at
\* path.  Checked under SpecStorage.
C9_StorageRoundTrip ==
    [][(/\ s_last.op = "get_file_to_storage" /\ s_last.err = "" /\ s_last.n = None
        /\ s_last'.op = "create_file_from_storage" /\ s_last'.n = s_last.res
        /\ ~file_exists(fs, s_last'.path)) =>
          /\ s_last'.err = ""
          /\ file_exists(fs', s_last'.path)
          /\ ContentOf(fs', s_last'.path) = ContentOf(fs, s_last.path)]_vars

\* A file of two bytes materialized from storage beside the file it was
\* persisted from.
C9_Witness ==
    /\ s_last.op = "create_file_from_storage" /\ s_last.err = ""
    /\ Len(ContentOf(fs, s_last.path)) >= 2
    /\ \E p \in PlainPaths :
          /\ p # s_last.path
          /\ file_exists(fs, p)
          /\ ContentOf(fs, p) = ContentOf(fs, s_last.path)
          /\ HasDigest(storage, s_last.n)

\* C10: after a successful create_file(path, executable) the permission bits
\* of the file are rw-r--r-- when executable is false and rwxr-xr-x when it
\* is true.  Checked under SpecAccess.
C10_PermissionBits ==
    (s_last.op = "create_file" /\ s_last.err = "") =>
        LET m == fs[LocOf(fs, s_last.path)].mode
            x == IF s_last.exe THEN 1 ELSE 0
        IN  /\ m < 512
            /\ (m \div 64) % 8 = 6 + x
            /\ (m \div 8) % 8 = 4 + x
            /\ m % 8 = 4 + x

\* An executable file just created, as stat_file would report it.
C10_Witness ==
    /\ s_last.op = "create_file" /\ s_last.err = "" /\ s_last.exe
    /\ stat_file(fs, s_last.path).mode = 493

----------------------------------------------------------------------------
(* Properties of the language definitions, checked under SpecLanguage *)

Contains(cmd, w) == \E i \in 1..Len(cmd) : cmd[i] = w

\* words occur in cmd in their order, possibly with other words between them
RECURSIVE InOrder(_, _)
InOrder(words, cmd) ==
    IF words = <<>> THEN TRUE
    ELSE IF cmd = <<>> THEN FALSE
    ELSE IF Head(cmd) = Head(words) THEN InOrder(Tail(words), Tail(cmd))
    ELSE InOrder(words, Tail(cmd))

C11Called == l_last.op = "C11Gcc.get_compilation_commands"

\* The command names its output and its sources: "-o" is immediately followed
\* by the output name, and every source filename is listed, in the given order.
NamesOutputAndSources(cmd) ==
    /\ \E i \in 1..(Len(cmd) - 1) :
          cmd[i] = "-o" /\ cmd[i + 1] = Str(l_args.executable_filename)
    /\ InOrder(Strs(l_args.source_filenames), cmd)

\* C11 as stated: for every list of source filenames and every output name,
\* C11Gcc.get_compilation_commands returns exactly one command; it contains
\* -DEVAL if and only if for_evaluation is true, contains "-o" immediately
\* followed by the output name, and lists every source filename in order.
C11_MarkerAnywhereIffEvaluation ==
    C11Called =>
        /\ Len(l_last.commands) = 1
        /\ Contains(l_last.commands[1], "-DEVAL") <=> l_args.for_evaluation
        /\ NamesOutputAndSources(l_last.commands[1])

\* No argument of the call is itself spelled -DEVAL.
NoArgumentIsMarker ==
    /\ Str(l_args.executable_filename) # "-DEVAL"
    /\ ~Contains(Strs(l_args.source_filenames), "-DEVAL")

\* C11: for every list of source filenames and every output name,
\* C11Gcc.get_compilation_commands returns exactly one command; the word right
\* after the compiler path is -DEVAL if and only if for_evaluation is true (so
\* that, when no argument is itself spelled -DEVAL, the command contains
\* -DEVAL if and only if for_evaluation is true); the command contains "-o"
\* immediately followed by the output name, and lists every source filename
\* in the given order.
C11_MarkerFollowsCompilerIffEvaluation ==
    C11Called =>
        /\ Len(l_last.commands) = 1
        /\ l_last.commands[1][1] = "/usr/bin/gcc"
        /\ l_last.commands[1][2] = "-DEVAL" <=> l_args.for_evaluation
        /\ NoArgumentIsMarker =>
              (Contains(l_last.commands[1], "-DEVAL") <=> l_args.for_evaluation)
        /\ NamesOutputAndSources(l_last.commands[1])

\* Sources [a.c, b.c], output prog, evaluation mode.
C11_Witness ==
    /\ C11Called
    /\ l_args = [source_filenames |-> << <<"a", ".", "c">>, <<"b", ".", "c">> >>,
                 executable_filename |-> <<"p", "r", "o", "g">>,
                 for_evaluation |-> TRUE]
    /\ l_last.commands =
          << <<"/usr/bin/gcc", "-DEVAL", "-std=gnu11", "-O2", "-pipe", "-static",
               "-s", "-o", "prog", "a.c", "b.c", "-lm">> >>

Python2Called == l_last.op = "Python2CPython.get_compilation_commands"

\* The compiled artifact of each source filename: its file name without the
\* directory and without the extension, followed by .pyc.
PycOf ==
    [f \in SourceNames |->
        CASE f = <<"a", ".", "c">> -> "a.pyc"
          [] f = <<"b", ".", "c">> -> "b.pyc"
          [] f = <<"d", "/", "m", ".", "p", "y">> -> "m.pyc"
          [] f = <<"x", ".", "y", ".", "p", "y">> -> "x.y.pyc"
          [] f = <<".", "h">> -> ".h.pyc"
          [] f = <<"-", "D", "E", "V", "A", "L">> -> "-DEVAL.pyc"]

\* C12: for every non-empty list of source filenames, the commands returned by
\* Python2CPython.get_compilation_commands end with the packaging (zip)
\* command; the command renaming the compiled artifact of the first source to
\* __main__.pyc occurs before it; and the packaging command's file list holds
\* one artifact per source, in order: __main__.pyc for the first source and
\* <basename>.pyc for each other one.
C12_MainRenamedBeforePackaging ==
    (Python2Called /\ l_args.source_filenames # <<>>) =>
        LET srcs == l_args.source_filenames
            cmds == l_last.commands
            zip == cmds[Len(cmds)]
        IN  /\ Len(zip) >= 2
            /\ zip[1] = "/usr/bin/zip"
            /\ \A i \in 1..(Len(cmds) - 1) : cmds[i][1] # "/usr/bin/zip"
            /\ \E i \in 1..(Len(cmds) - 1) :
                  cmds[i] = <<"/bin/mv", PycOf[srcs[1]], "__main__.pyc">>
            /\ SubSeq(zip, 3, Len(zip)) =
                  [i \in 1..Len(srcs) |->
                      IF i = 1 THEN "__main__.pyc" ELSE PycOf[srcs[i]]]

\* Sources [d/m.py, x.y.py], output o.zip.
C12_Witness ==
    /\ Python2Called
    /\ l_args.source_filenames =
          << <<"d", "/", "m", ".", "p", "y">>, <<"x", ".", "y", ".", "p", "y">> >>
    /\ l_last.commands =
          << <<"/usr/bin/python2", "-m", "compileall", ".">>,
             <<"/bin/mv", "m.pyc", "__main__.pyc">>,
             <<"/usr/bin/zip", Str(l_args.executable_filename),
               "__main__.pyc", "x.y.pyc">> >>

----------------------------------------------------------------------------
(* Text streams, checked under SpecText *)

\* C13: get_file_text(path, trunc_len=k) on an existing file returns a stream
\* truncated at length k, as get_file does: reading it to the end succeeds
\* and returns no more than the first k units of the file's content.
C13_TextStreamIsTruncated ==
    (/\ s_last.op = "get_file_text"
     /\ s_last.n # None
     /\ file_exists(fs, s_last.path)) =>
        /\ s_last.err = ""
        /\ Len(s_last.out) <= s_last.n
        /\ s_last.out =
              SubSeq(utf8_decode(ContentOf(fs, s_last.path)), 1, Len(s_last.out))

====
